---- MODULE Spec2Model ----
(***************************************************************************)
(* A model of reader3's book repository: the slug migration tool           *)
(* (migrate_slugs.py) and the cached book store of the server (server.py). *)
(* Names are sequences of one-character strings, so that the string        *)
(* transforms of the code are computed and not assumed.                    *)
(***************************************************************************)
EXTENDS Integers, Sequences, FiniteSets, TLC

\* ------------------------------------------------------------------ bounds
MaxRuns == 2
MaxFaults == 2
MaxRequests == 3
MaxCalls == 2
MaxLive == 2
MaxConc == 2
MaxBlocks == 3
NumFolders == 11

\* ----------------------------------------------------------------- strings
Suffix == <<"_", "d", "a", "t", "a">>

LowerChar(c) ==
    CASE c = "A" -> "a"
      [] c = "B" -> "b"
      [] c = "Y" -> "y"
      [] OTHER -> c

\* str.lower()
Lower(s) == [k \in 1..Len(s) |-> LowerChar(s[k])]

\* str.replace(old, new) for a one-character old and new
ReplaceChar(s, old, new) == [k \in 1..Len(s) |-> IF s[k] = old THEN new ELSE s[k]]

\* str.endswith("_data")
EndsWithData(s) ==
    /\ Len(s) >= Len(Suffix)
    /\ SubSeq(s, Len(s) - Len(Suffix) + 1, Len(s)) = Suffix

\* f"{new_slug}_data"
FolderOf(slug) == slug \o Suffix

\* reader3.generate_slug(title, fallback): the canonical generator.  For Latin
\* titles it lowercases and hyphenates.
generate_slug(title, fallback) ==
    LET s == ReplaceChar(Lower(title), " ", "-")
    IN IF s = <<>> THEN fallback ELSE s

\* ------------------------------------------------------------- the records
EmptySlug == <<>>

\* a Book: slug, metadata.title, metadata.authors and spine
Book(slug, title, authors, spine) ==
    [kind |-> "book", slug |-> slug, title |-> title, authors |-> authors,
     spine |-> spine]

\* the authors and the chapters of the book with a given title
AuthorsOf(title) == IF title[1] = "a" THEN <<>> ELSE <<"n1", "n2">>
SpineOf(title) ==
    IF Len(title) > 1 THEN <<"ch0", "ch1", "ch2">>
    ELSE IF title[1] \in {"A", "c"} THEN <<>>
    ELSE <<"ch0", "ch1">>

\* a book.pkl holding a Book
BookFile(slug, title) == Book(slug, title, AuthorsOf(title), SpineOf(title))
\* a book.pkl that pickle.load cannot read
CorruptFile ==
    [kind |-> "corrupt", slug |-> <<>>, title |-> <<>>, authors |-> <<>>,
     spine |-> <<>>]
\* no book.pkl in the folder
NoFile ==
    [kind |-> "missing", slug |-> <<>>, title |-> <<>>, authors |-> <<>>,
     spine |-> <<>>]

\* a directory: its book.pkl and the directories inside it
Dir(pkl, sub) == [pkl |-> pkl, sub |-> sub]

Titles == { <<"A">>, <<"a">>, <<"Y">>, <<"a", " ", "B">> }

NameA == <<"A">> \o Suffix
Namea == <<"a">> \o Suffix
Namey == <<"y">> \o Suffix
Nameab == <<"a", "-", "b">> \o Suffix

\* the folders a books directory starts with
StartNames == <<NameA, Namea, Namey>>

\* the base identifier of a folder named <base>_data
BaseOf(name) == SubSeq(name, 1, Len(name) - Len(Suffix))

\* what a folder can hold at the start: nothing readable, a legacy record
\* (no stored slug), or a record whose stored slug names its folder
StartFiles(name) ==
    {CorruptFile}
      \cup {BookFile(EmptySlug, t) : t \in Titles}
      \cup {BookFile(BaseOf(name), t) : t \in Titles}

VARIABLES
    fs,             \* the books directory: folder name -> Dir
    dirOrder,       \* the order in which os.listdir returns names
    pc,             \* position of main(): idle, confirm, exec, done
    dry_run,        \* args.dry_run
    books,          \* result of scan_books
    migrations,     \* <<old_folder, new_slug, title>>
    conflicts,      \* <<old_folder, new_folder, title>>
    unchanged,      \* <<old_folder, title>>
    response,       \* the answer read by input()
    idx,            \* position of the execution loop in migrations
    success_count,
    outcome,        \* how main() ended
    run,            \* number of the current run
    faults,         \* I/O failures injected so far
    fs0,            \* history: the directory as the run found it
    renames,        \* history: shutil.move calls of this run that changed fs
    rewrites,       \* history: pickle.dump calls of this run that wrote a slug
    attemptLog,     \* history: old_folder of every entry the loop entered
    trueRenames,    \* history: entries whose folder became root/new_folder
    prevOk,         \* history: <<run, old, new_slug, title>> reported successful
    intoExisting,   \* history: targets that existed when a folder was moved there
    extCreated,     \* history: folders made by someone else during the run
    cache,          \* lru_cache of load_book_cached, least recent first
    result,         \* what the last request returned
    lastReq,        \* the last request
    reqs,           \* requests served
    clock,          \* history: number of load_book_cached calls
    lastUse,        \* history: folder -> clock of its last load_book_cached call
    evictions,      \* history: entries dropped from the cache
    page,           \* the books of the last library page
    arg,            \* the arguments of the last handler or function call
    reply,          \* what that call returned
    snap,           \* history: folder -> its record on disk at its last cache miss
    missed,         \* history: folders the last request had to read from disk
    flight          \* requests in progress, each with its position

vars == <<fs, dirOrder, pc, dry_run, books, migrations, conflicts, unchanged,
          response, idx, success_count, outcome, run, faults, fs0, renames,
          rewrites, attemptLog, trueRenames, prevOk, intoExisting, extCreated,
          cache, result, lastReq, reqs, clock, lastUse, evictions, page, arg,
          reply, snap, missed, flight>>

SeqRange(q) == {q[k] : k \in 1..Len(q)}

\* -------------------------------------------------------------- filesystem
\* os.listdir(directory)
listdir(d, order) == SelectSeq(order, LAMBDA n : n \in DOMAIN d)

Remove(d, name) == [n \in DOMAIN d \ {name} |-> d[n]]
Put(d, name, e) == [n \in DOMAIN d \cup {name} |-> IF n = name THEN e ELSE d[n]]

SubNames(e) == {p[1] : p \in e.sub}

\* ScanFrom that gives up at the first record that does not load
RECURSIVE ScanFrom_AbortOnCorrupt(_, _, _)
ScanFrom_AbortOnCorrupt(d, names, k) ==
    IF k > Len(names) THEN <<>>
    ELSE LET item == names[k]
         IN IF EndsWithData(item) /\ d[item].pkl.kind = "corrupt" THEN <<>>
            ELSE IF EndsWithData(item) /\ d[item].pkl.kind = "book"
                 THEN <<<<item, d[item].pkl>>>> \o ScanFrom_AbortOnCorrupt(d, names, k + 1)
                 ELSE ScanFrom_AbortOnCorrupt(d, names, k + 1)

\* scan_books: every listed <x>_data directory with a loadable book.pkl
RECURSIVE ScanFrom(_, _, _)
ScanFrom(d, names, k) ==
    IF k > Len(names) THEN <<>>
    ELSE LET item == names[k]
             rest == ScanFrom(d, names, k + 1)
         IN IF EndsWithData(item) /\ d[item].pkl.kind = "book"
            THEN <<<<item, d[item].pkl>>>> \o rest
            ELSE rest

scan_books(d, order) == ScanFrom(d, listdir(d, order), 1)

\* the class main() gives one scanned book
Classify(d, old_folder, book) ==
    LET new_slug == generate_slug(book.title, <<>>)
        new_folder == FolderOf(new_slug)
    IN IF new_folder = old_folder THEN "unchanged"
       ELSE IF new_folder \in DOMAIN d THEN "conflict"
       ELSE "migrate"

RECURSIVE PlanOf(_, _, _, _)
PlanOf(d, bs, k, class) ==
    IF k > Len(bs) THEN <<>>
    ELSE LET old_folder == bs[k][1]
             book == bs[k][2]
             new_slug == generate_slug(book.title, <<>>)
             rest == PlanOf(d, bs, k + 1, class)
             entry == CASE class = "unchanged" -> <<old_folder, book.title>>
                        [] class = "conflict" -> <<old_folder, FolderOf(new_slug), book.title>>
                        [] OTHER -> <<old_folder, new_slug, book.title>>
         IN IF Classify(d, old_folder, book) = class
            THEN <<entry>> \o rest
            ELSE rest

\* shutil.move(old_path, new_path): [ok, fs]
Move(d, old, new) ==
    IF old \notin DOMAIN d THEN [ok |-> FALSE, fs |-> d]
    ELSE IF new \in DOMAIN d
         THEN IF old \in SubNames(d[new])
              THEN [ok |-> FALSE, fs |-> d]
              ELSE [ok |-> TRUE,
                    fs |-> Remove(Put(d, new, Dir(d[new].pkl,
                                        d[new].sub \cup {<<old, d[old]>>})), old)]
         ELSE [ok |-> TRUE, fs |-> Remove(Put(d, new, d[old]), old)]

\* ---------------------------------------------------------------- the tool
StartNameSet == {StartNames[k] : k \in 1..Len(StartNames)}

StartDirs(n) == {Dir(NoFile, {})} \cup {Dir(f, {}) : f \in StartFiles(n)}

\* every directory layout over a set of start names
Layouts(S) ==
    { d \in [S -> UNION {StartDirs(n) : n \in S}] : \A n \in S : d[n] \in StartDirs(n) }

ListingOrders == { <<NameA, Namea, Namey, Nameab>>, <<Nameab, Namey, Namea, NameA>> }

None ==
    [kind |-> "none", slug |-> <<>>, title |-> <<>>, authors |-> <<>>,
     spine |-> <<>>]
NoResult == [found |-> FALSE, folder |-> <<>>, book |-> None]
NoRequest == [op |-> "none", slug |-> <<>>]
NoArg == [name |-> <<>>, index |-> 0]
NoReply == [status |-> "none", value |-> <<>>, prev |-> -1, next |-> -1]

\* the tool has not started
ToolIdle ==
    /\ pc = "idle"
    /\ dry_run = FALSE
    /\ books = <<>>
    /\ migrations = <<>>
    /\ conflicts = <<>>
    /\ unchanged = <<>>
    /\ response = <<>>
    /\ idx = 0
    /\ success_count = 0
    /\ outcome = "none"
    /\ run = 1
    /\ faults = 0
    /\ fs0 = fs
    /\ renames = 0
    /\ rewrites = 0
    /\ attemptLog = <<>>
    /\ trueRenames = 0
    /\ prevOk = <<>>
    /\ intoExisting = {}
    /\ extCreated = {}

\* the server has just been started
CacheFresh ==
    /\ cache = <<>>
    /\ result = NoResult
    /\ lastReq = NoRequest
    /\ reqs = 0
    /\ clock = 0
    /\ lastUse = [n \in {} |-> 0]
    /\ evictions = 0
    /\ page = <<>>
    /\ snap = [n \in {} |-> None]
    /\ missed = {}
    /\ flight = <<>>

ServerFresh ==
    /\ CacheFresh
    /\ arg = NoArg
    /\ reply = NoReply

Init ==
    /\ \E S \in SUBSET StartNameSet : fs \in Layouts(S)
    /\ dirOrder \in ListingOrders
    /\ ToolIdle
    /\ ServerFresh

planVars == <<books, migrations, conflicts, unchanged>>
histVars == <<fs0, renames, rewrites, attemptLog, trueRenames, prevOk,
              intoExisting>>
srvVars == <<cache, result, lastReq, reqs, clock, lastUse, evictions, page,
             arg, reply, snap, missed, flight>>
toolVars == <<pc, dry_run, books, migrations, conflicts, unchanged, response,
              idx, success_count, outcome, run, faults, fs0, renames, rewrites,
              attemptLog, trueRenames, prevOk, intoExisting, extCreated>>

\* Start without the conflict gate of lines 87-89
Start_NoConflictGate(dry) ==
    /\ pc = "idle"
    /\ LET bs == scan_books(fs, dirOrder)
           mg == PlanOf(fs, bs, 1, "migrate")
           cf == PlanOf(fs, bs, 1, "conflict")
           un == PlanOf(fs, bs, 1, "unchanged")
       IN /\ dry_run' = dry
          /\ books' = bs
          /\ migrations' = IF bs = <<>> THEN <<>> ELSE mg
          /\ conflicts' = IF bs = <<>> THEN <<>> ELSE cf
          /\ unchanged' = IF bs = <<>> THEN <<>> ELSE un
          /\ outcome' = IF bs = <<>> THEN "nobooks"
                        ELSE IF dry THEN "dryrun"
                        ELSE IF mg = <<>> THEN "nothing"
                        ELSE "none"
          /\ pc' = IF bs # <<>> /\ ~dry /\ mg # <<>> THEN "confirm" ELSE "done"
    /\ UNCHANGED <<fs, dirOrder, response, idx, success_count, run, faults,
                   histVars, extCreated, srvVars>>

\* main(), lines 41-95: scan, plan, and the gates before the prompt
Start(dry) ==
    /\ pc = "idle"
    /\ LET bs == scan_books(fs, dirOrder)
           mg == PlanOf(fs, bs, 1, "migrate")
           cf == PlanOf(fs, bs, 1, "conflict")
           un == PlanOf(fs, bs, 1, "unchanged")
       IN /\ dry_run' = dry
          /\ books' = bs
          /\ migrations' = IF bs = <<>> THEN <<>> ELSE mg
          /\ conflicts' = IF bs = <<>> THEN <<>> ELSE cf
          /\ unchanged' = IF bs = <<>> THEN <<>> ELSE un
          /\ outcome' = IF bs = <<>> THEN "nobooks"
                        ELSE IF dry THEN "dryrun"
                        ELSE IF cf # <<>> THEN "conflict"
                        ELSE IF mg = <<>> THEN "nothing"
                        ELSE "none"
          /\ pc' = IF bs # <<>> /\ ~dry /\ cf = <<>> /\ mg # <<>>
                   THEN "confirm" ELSE "done"
    /\ UNCHANGED <<fs, dirOrder, response, idx, success_count, run, faults,
                   histVars, extCreated, srvVars>>

Responses == { <<"y">>, <<"Y">>, <<"n">>, <<>> }

\* main(), lines 95-102: the confirmation prompt
Confirm(r) ==
    /\ pc = "confirm"
    /\ response' = r
    /\ IF Lower(r) # <<"y">>
       THEN /\ pc' = "done"
            /\ outcome' = "cancelled"
            /\ UNCHANGED <<idx, success_count>>
       ELSE /\ pc' = "exec"
            /\ idx' = 1
            /\ success_count' = 0
            /\ UNCHANGED outcome
    /\ UNCHANGED <<fs, dirOrder, dry_run, planVars, run, faults, histVars,
                   extCreated, srvVars>>

FaultKinds == {"none", "move", "read", "write"}

\* MigrateEntry storing the slug of the old folder name instead of new_slug
MigrateEntry_OldSlug(d, entry, fault) ==
    LET old_folder == entry[1]
        new_slug == entry[2]
        new_folder == FolderOf(new_slug)
        mv == IF fault = "move" THEN [ok |-> FALSE, fs |-> d]
              ELSE Move(d, old_folder, new_folder)
        pkl == IF mv.ok THEN mv.fs[new_folder].pkl ELSE NoFile
        loaded == mv.ok /\ pkl.kind = "book" /\ fault # "read"
        written == loaded /\ fault # "write"
        after == IF ~loaded THEN mv.fs
                 ELSE IF written
                      THEN Put(mv.fs, new_folder,
                               Dir([pkl EXCEPT !.slug = Lower(BaseOf(old_folder))],
                                   mv.fs[new_folder].sub))
                      ELSE Put(mv.fs, new_folder,
                               Dir(CorruptFile, mv.fs[new_folder].sub))
    IN [fs |-> after, moved |-> mv.ok, written |-> written,
        renamed |-> mv.ok /\ new_folder \notin DOMAIN d,
        into |-> IF mv.ok /\ new_folder \in DOMAIN d THEN {new_folder} ELSE {}]

\* the body of the execution loop, lines 103-119, for one entry; fault names
\* the call that raises for a reason outside the directory contents
MigrateEntry(d, entry, fault) ==
    LET old_folder == entry[1]
        new_slug == entry[2]
        new_folder == FolderOf(new_slug)
        mv == IF fault = "move" THEN [ok |-> FALSE, fs |-> d]
              ELSE Move(d, old_folder, new_folder)
        pkl == IF mv.ok THEN mv.fs[new_folder].pkl ELSE NoFile
        loaded == mv.ok /\ pkl.kind = "book" /\ fault # "read"
        written == loaded /\ fault # "write"
        after == IF ~loaded THEN mv.fs
                 ELSE IF written
                      THEN Put(mv.fs, new_folder,
                               Dir([pkl EXCEPT !.slug = new_slug], mv.fs[new_folder].sub))
                      ELSE Put(mv.fs, new_folder,
                               Dir(CorruptFile, mv.fs[new_folder].sub))
    IN [fs |-> after, moved |-> mv.ok, written |-> written,
        renamed |-> mv.ok /\ new_folder \notin DOMAIN d,
        into |-> IF mv.ok /\ new_folder \in DOMAIN d THEN {new_folder} ELSE {}]

\* one iteration of the execution loop
Migrate(fault) ==
    /\ pc = "exec"
    /\ idx <= Len(migrations)
    /\ fault # "none" => faults < MaxFaults
    /\ LET r == MigrateEntry(fs, migrations[idx], fault)
       IN /\ fs' = r.fs
          /\ success_count' = IF r.written THEN success_count + 1 ELSE success_count
          /\ renames' = IF r.moved THEN renames + 1 ELSE renames
          /\ rewrites' = IF r.written THEN rewrites + 1 ELSE rewrites
          /\ trueRenames' = IF r.renamed /\ r.written THEN trueRenames + 1 ELSE trueRenames
          /\ prevOk' = IF r.written
                       THEN Append(prevOk, <<run, migrations[idx][1],
                                             migrations[idx][2], migrations[idx][3]>>)
                       ELSE prevOk
          /\ intoExisting' = intoExisting \cup r.into
    /\ attemptLog' = Append(attemptLog, migrations[idx][1])
    /\ idx' = idx + 1
    /\ faults' = IF fault = "none" THEN faults ELSE faults + 1
    /\ UNCHANGED <<dirOrder, pc, dry_run, planVars, response, outcome, run, fs0,
                   extCreated, srvVars>>

\* main(), line 121: the final report
Finish ==
    /\ pc = "exec"
    /\ idx > Len(migrations)
    /\ pc' = "done"
    /\ outcome' = "completed"
    /\ UNCHANGED <<fs, dirOrder, dry_run, planVars, response, idx, success_count,
                   run, faults, histVars, extCreated, srvVars>>

\* the operator starts the tool again
NextRun ==
    /\ pc = "done"
    /\ run < MaxRuns
    /\ run' = run + 1
    /\ pc' = "idle"
    /\ dry_run' = FALSE
    /\ books' = <<>>
    /\ migrations' = <<>>
    /\ conflicts' = <<>>
    /\ unchanged' = <<>>
    /\ response' = <<>>
    /\ idx' = 0
    /\ success_count' = 0
    /\ outcome' = "none"
    /\ fs0' = fs
    /\ renames' = 0
    /\ rewrites' = 0
    /\ attemptLog' = <<>>
    /\ trueRenames' = 0
    /\ intoExisting' = {}
    /\ extCreated' = {}
    /\ UNCHANGED <<fs, dirOrder, faults, prevOk, srvVars>>

\* ---------------------------------------------------------------- the server
maxsize == 10

\* name.replace("_data", ""): every non-overlapping occurrence, left to right
RECURSIVE StripData(_)
StripData(s) ==
    IF s = <<>> THEN <<>>
    ELSE IF Len(s) >= Len(Suffix) /\ SubSeq(s, 1, Len(Suffix)) = Suffix
         THEN StripData(SubSeq(s, Len(Suffix) + 1, Len(s)))
         ELSE <<Head(s)>> \o StripData(Tail(s))

generate_slug_from_id(folder_name) ==
    ReplaceChar(ReplaceChar(Lower(StripData(folder_name)), " ", "-"), "_", "-")

\* load_book deriving the slug of a legacy record from its title
load_book_FromTitle(d, folder_name) ==
    IF folder_name \notin DOMAIN d THEN None
    ELSE LET f == d[folder_name].pkl
         IN IF f.kind # "book" THEN None
            ELSE IF f.slug = <<>>
                 THEN [f EXCEPT !.slug = generate_slug(f.title, <<>>)]
                 ELSE f

\* the body of load_book_cached: the Book of a folder, or None
load_book(d, folder_name) ==
    IF folder_name \notin DOMAIN d THEN None
    ELSE LET f == d[folder_name].pkl
         IN IF f.kind # "book" THEN None
            ELSE IF f.slug = <<>>
                 THEN [f EXCEPT !.slug = generate_slug_from_id(folder_name)]
                 ELSE f

CacheKeys(c) == {c[k].key : k \in 1..Len(c)}
CachePos(c, key) == CHOOSE k \in 1..Len(c) : c[k].key = key
DropAt(c, k) == SubSeq(c, 1, k - 1) \o SubSeq(c, k + 1, Len(c))

\* load_book_cached with a cache whose hits do not count as a use
load_book_cached_NoRefresh(c, d, folder_name) ==
    IF folder_name \in CacheKeys(c)
    THEN [cache |-> c, val |-> c[CachePos(c, folder_name)].val, evicted |-> 0]
    ELSE LET v == load_book(d, folder_name)
             e == [key |-> folder_name, val |-> v]
         IN IF Len(c) >= maxsize
            THEN [cache |-> Append(Tail(c), e), val |-> v, evicted |-> 1]
            ELSE [cache |-> Append(c, e), val |-> v, evicted |-> 0]

\* load_book_cached reading the record again on every hit
load_book_cached_Reread(c, d, folder_name) ==
    LET v == load_book(d, folder_name)
        e == [key |-> folder_name, val |-> v]
    IN IF folder_name \in CacheKeys(c)
       THEN [cache |-> Append(DropAt(c, CachePos(c, folder_name)), e), val |-> v,
             evicted |-> 0]
       ELSE IF Len(c) >= maxsize
            THEN [cache |-> Append(Tail(c), e), val |-> v, evicted |-> 1]
            ELSE [cache |-> Append(c, e), val |-> v, evicted |-> 0]

\* load_book_cached keeping only the books it found
load_book_cached_BooksOnly(c, d, folder_name) ==
    IF folder_name \in CacheKeys(c)
    THEN LET k == CachePos(c, folder_name)
         IN [cache |-> Append(DropAt(c, k), c[k]), val |-> c[k].val, evicted |-> 0]
    ELSE LET v == load_book(d, folder_name)
             e == [key |-> folder_name, val |-> v]
         IN IF v.kind # "book" THEN [cache |-> c, val |-> v, evicted |-> 0]
            ELSE IF Len(c) >= maxsize
                 THEN [cache |-> Append(Tail(c), e), val |-> v, evicted |-> 1]
                 ELSE [cache |-> Append(c, e), val |-> v, evicted |-> 0]

\* load_book_cached through functools.lru_cache(maxsize=10)
load_book_cached(c, d, folder_name) ==
    IF folder_name \in CacheKeys(c)
    THEN LET k == CachePos(c, folder_name)
         IN [cache |-> Append(DropAt(c, k), c[k]), val |-> c[k].val, evicted |-> 0]
    ELSE LET v == load_book(d, folder_name)
             e == [key |-> folder_name, val |-> v]
         IN IF Len(c) >= maxsize
            THEN [cache |-> Append(Tail(c), e), val |-> v, evicted |-> 1]
            ELSE [cache |-> Append(c, e), val |-> v, evicted |-> 0]

\* FindFrom that keeps scanning after a match and returns the last one
RECURSIVE FindFrom_LastMatch(_, _, _, _, _, _, _)
FindFrom_LastMatch(c, d, names, k, slug, calls, ev) ==
    IF k > Len(names)
    THEN [cache |-> c, result |-> NoResult, calls |-> calls, evicted |-> ev]
    ELSE LET item == names[k]
         IN IF EndsWithData(item)
            THEN LET r == load_book_cached(c, d, item)
                     rest == FindFrom_LastMatch(r.cache, d, names, k + 1, slug,
                                                Append(calls, item), ev + r.evicted)
                 IN IF r.val.kind = "book" /\ r.val.slug = slug /\ ~rest.result.found
                    THEN [cache |-> rest.cache,
                          result |-> [found |-> TRUE, folder |-> item, book |-> r.val],
                          calls |-> rest.calls, evicted |-> rest.evicted]
                    ELSE rest
            ELSE FindFrom_LastMatch(c, d, names, k + 1, slug, calls, ev)

\* find_book_by_slug from position k of the listing; calls lists the folders
\* load_book_cached was called with
RECURSIVE FindFrom(_, _, _, _, _, _, _)
FindFrom(c, d, names, k, slug, calls, ev) ==
    IF k > Len(names)
    THEN [cache |-> c, result |-> NoResult, calls |-> calls, evicted |-> ev]
    ELSE LET item == names[k]
         IN IF EndsWithData(item)
            THEN LET r == load_book_cached(c, d, item)
                 IN IF r.val.kind = "book" /\ r.val.slug = slug
                    THEN [cache |-> r.cache,
                          result |-> [found |-> TRUE, folder |-> item, book |-> r.val],
                          calls |-> Append(calls, item), evicted |-> ev + r.evicted]
                    ELSE FindFrom(r.cache, d, names, k + 1, slug,
                                  Append(calls, item), ev + r.evicted)
            ELSE FindFrom(c, d, names, k + 1, slug, calls, ev)

find_book_by_slug(c, d, order, slug) == FindFrom(c, d, listdir(d, order), 1, slug, <<>>, 0)

\* the library view, lines 63-77: every listed book folder is loaded
RECURSIVE LibraryFrom(_, _, _, _, _, _, _)
LibraryFrom(c, d, names, k, out, calls, ev) ==
    IF k > Len(names)
    THEN [cache |-> c, books |-> out, calls |-> calls, evicted |-> ev]
    ELSE LET item == names[k]
         IN IF EndsWithData(item)
            THEN LET r == load_book_cached(c, d, item)
                 IN LibraryFrom(r.cache, d, names, k + 1,
                                IF r.val.kind = "book" THEN Append(out, r.val) ELSE out,
                                Append(calls, item), ev + r.evicted)
            ELSE LibraryFrom(c, d, names, k + 1, out, calls, ev)

library_view(c, d, order) == LibraryFrom(c, d, listdir(d, order), 1, <<>>, <<>>, 0)

\* the folders of the served directory, in one listing order; two of them are
\* legacy folders whose names differ only in case
Letters == <<"B", "c", "e", "b", "f", "g", "h", "i", "j", "k", "l", "m", "p", "q">>
SrvName(k) == <<Letters[k]>> \o Suffix
SrvNames == {SrvName(k) : k \in 1..NumFolders}
Plain == <<"n", "o">>

\* the title of the book in slot k: the first and the third book have titles
\* that do not name their folders
SrvTitle(k) ==
    IF k = 1 THEN <<"Y">>
    ELSE IF k = 3 THEN <<"a", " ", "B">>
    ELSE <<Letters[k]>>

\* folder k of the served directory: slot bad holds an unreadable record, slot
\* gone has no record, odd slots hold legacy records, even slots stored slugs
SrvDir(k, bad, gone) ==
    IF k = bad THEN Dir(CorruptFile, {})
    ELSE IF k = gone THEN Dir(NoFile, {})
    ELSE IF k % 2 = 0 \/ k = 1
         THEN Dir(BookFile(EmptySlug, SrvTitle(k)), {})
         ELSE Dir(BookFile(<<Letters[k]>>, SrvTitle(k)), {})

SrvLayout(bad, gone) ==
    [n \in SrvNames \cup {Plain} |->
        IF n = Plain THEN Dir(NoFile, {})
        ELSE SrvDir(CHOOSE k \in 1..NumFolders : SrvName(k) = n, bad, gone)]

SrvOrder == <<Plain>> \o [k \in 1..NumFolders |-> SrvName(k)]
Reverse(q) == [k \in 1..Len(q) |-> q[Len(q) + 1 - k]]

SrvInit ==
    /\ \E bad \in {0, 1, 4}, gone \in {0, 2} : fs = SrvLayout(bad, gone)
    /\ dirOrder \in {SrvOrder, Reverse(SrvOrder)}
    /\ ToolIdle
    /\ ServerFresh

\* the slugs a request can ask for
SrvSlugs == {Lower(<<Letters[k]>>) : k \in 1..NumFolders} \cup {<<"z">>}

Stamp(calls) ==
    [n \in DOMAIN lastUse \cup SeqRange(calls) |->
        IF n \in SeqRange(calls)
        THEN clock + (CHOOSE k \in 1..Len(calls) : calls[k] = n)
        ELSE lastUse[n]]

\* the folders among calls that load_book_cached had to read from disk
RECURSIVE MissesFrom(_, _, _, _, _)
MissesFrom(c, d, calls, k, acc) ==
    IF k > Len(calls) THEN acc
    ELSE MissesFrom(load_book_cached(c, d, calls[k]).cache, d, calls, k + 1,
                    IF calls[k] \in CacheKeys(c) THEN acc ELSE acc \cup {calls[k]})

MissesOf(calls) == MissesFrom(cache, fs, calls, 1, {})

Snapshot(read) ==
    [n \in DOMAIN snap \cup read |-> IF n \in read THEN load_book(fs, n) ELSE snap[n]]

\* a request that resolves a slug: lines 87, 106 and 143
Find(slug) ==
    /\ reqs < MaxRequests
    /\ LET r == find_book_by_slug(cache, fs, dirOrder, slug)
       IN /\ cache' = r.cache
          /\ result' = r.result
          /\ lastUse' = Stamp(r.calls)
          /\ clock' = clock + Len(r.calls)
          /\ evictions' = evictions + r.evicted
          /\ missed' = MissesOf(r.calls)
          /\ snap' = Snapshot(MissesOf(r.calls))
    /\ lastReq' = [op |-> "find", slug |-> slug]
    /\ reqs' = reqs + 1
    /\ UNCHANGED <<fs, dirOrder, toolVars, page, arg, reply, flight>>

\* a request for the library page
Library ==
    /\ reqs < MaxRequests
    /\ LET r == library_view(cache, fs, dirOrder)
       IN /\ cache' = r.cache
          /\ result' = [found |-> r.books # <<>>, folder |-> <<>>, book |-> None]
          /\ lastUse' = Stamp(r.calls)
          /\ clock' = clock + Len(r.calls)
          /\ evictions' = evictions + r.evicted
          /\ missed' = MissesOf(r.calls)
          /\ snap' = Snapshot(MissesOf(r.calls))
          /\ page' = r.books
    /\ lastReq' = [op |-> "library", slug |-> <<>>]
    /\ reqs' = reqs + 1
    /\ UNCHANGED <<fs, dirOrder, toolVars, arg, reply, flight>>

SrvNext ==
    \/ \E slug \in SrvSlugs : Find(slug)
    \/ Library

SrvSpec == SrvInit /\ [][SrvNext]_vars

\* --------------------------------------------------------- the handlers
\* the part of find_book_by_slug(slug) that every handler shares
Resolve(slug, op) ==
    /\ reqs < MaxCalls
    /\ LET r == find_book_by_slug(cache, fs, dirOrder, slug)
       IN /\ cache' = r.cache
          /\ result' = r.result
          /\ lastUse' = Stamp(r.calls)
          /\ clock' = clock + Len(r.calls)
          /\ evictions' = evictions + r.evicted
          /\ missed' = MissesOf(r.calls)
          /\ snap' = Snapshot(MissesOf(r.calls))
    /\ lastReq' = [op |-> op, slug |-> slug]
    /\ reqs' = reqs + 1
    /\ UNCHANGED <<fs, dirOrder, toolVars, page, flight>>

NotFound(detail) == [status |-> detail, value |-> <<>>, prev |-> -1, next |-> -1]

\* chapter_at that offers a next chapter after the last one
chapter_at_NextPastEnd(book, chapter_index) ==
    IF chapter_index < 0 \/ chapter_index >= Len(book.spine)
    THEN NotFound("chapter-not-found")
    ELSE [status |-> "ok",
          value |-> <<book.spine[chapter_index + 1]>>,
          prev |-> IF chapter_index > 0 THEN chapter_index - 1 ELSE -1,
          next |-> IF chapter_index < Len(book.spine)
                   THEN chapter_index + 1 ELSE -1]

\* read_chapter, lines 116-123, once the book is resolved; a prev or next of
\* -1 stands for None
chapter_at(book, chapter_index) ==
    IF chapter_index < 0 \/ chapter_index >= Len(book.spine)
    THEN NotFound("chapter-not-found")
    ELSE [status |-> "ok",
          value |-> <<book.spine[chapter_index + 1]>>,
          prev |-> IF chapter_index > 0 THEN chapter_index - 1 ELSE -1,
          next |-> IF chapter_index < Len(book.spine) - 1
                   THEN chapter_index + 1 ELSE -1]

\* GET /read/{book_slug}/{chapter_index}
ReadChapter(slug, chapter_index) ==
    /\ Resolve(slug, "chapter")
    /\ arg' = [name |-> <<>>, index |-> chapter_index]
    /\ reply' = IF result'.found THEN chapter_at(result'.book, chapter_index)
                ELSE NotFound("book-not-found")

\* GET /read/{book_slug}: chapter 0, with the folder passed on to read_chapter,
\* which loads it again through the cache (line 111)
Redirect(slug) ==
    /\ Resolve(slug, "redirect")
    /\ arg' = [name |-> <<>>, index |-> 0]
    /\ reply' = IF result'.found
                THEN chapter_at(load_book_cached(cache', fs, result'.folder).val, 0)
                ELSE NotFound("book-not-found")

ImagesDir == <<"i", "m", "a", "g", "e", "s">>
Here == <<".">>
Up == <<".", ".">>

\* the files in the images/ directory of every book folder
ImageFiles == { <<"p">> }

\* os.path.basename: what follows the last "/"
RECURSIVE basename(_)
basename(p) ==
    IF p = <<>> THEN <<>>
    ELSE IF p[Len(p)] = "/" THEN <<>>
    ELSE basename(SubSeq(p, 1, Len(p) - 1)) \o <<p[Len(p)]>>

\* the location a path names below BOOKS_DIR, "." and ".." followed
RECURSIVE Location(_)
Location(segs) ==
    IF segs = <<>> THEN <<>>
    ELSE LET before == Location(SubSeq(segs, 1, Len(segs) - 1))
             last == segs[Len(segs)]
         IN IF last = Here \/ last = <<>> THEN before
            ELSE IF last = Up
                 THEN IF before = <<>> THEN <<>>
                      ELSE SubSeq(before, 1, Len(before) - 1)
            ELSE Append(before, last)

\* os.path.exists for a path below BOOKS_DIR
exists(d, segs) ==
    LET loc == Location(segs)
    IN \/ loc = <<>>
       \/ Len(loc) = 1 /\ loc[1] \in DOMAIN d
       \/ Len(loc) = 2 /\ loc[1] \in DOMAIN d /\ loc[2] = ImagesDir
       \/ Len(loc) = 3 /\ loc[1] \in DOMAIN d /\ loc[2] = ImagesDir
                       /\ loc[3] \in ImageFiles

\* serve_image, lines 148-154, once the book is resolved
resolve_image(d, folder_name, image_name) ==
    LET safe_image_name == basename(image_name)
        img_path == <<folder_name, ImagesDir, safe_image_name>>
    IN IF ~exists(d, img_path) THEN NotFound("image-not-found")
       ELSE [status |-> "file", value |-> img_path, prev |-> -1, next |-> -1]

\* GET /read/{book_slug}/images/{image_name}
ServeImage(slug, image_name) ==
    /\ Resolve(slug, "image")
    /\ arg' = [name |-> image_name, index |-> 0]
    /\ reply' = IF result'.found
                THEN resolve_image(fs, result'.folder, image_name)
                ELSE NotFound("book-not-found")

ReqSlugs == { <<"b">>, <<"c">>, <<"e">>, <<"z">> }
IndexInputs == -1..3
ImageInputs ==
    { <<"p">>, <<"q">>, <<".", ".">>, <<"q", "/", "p">>, <<"p", "/">>,
      <<".", ".", "/", ".", ".", "/", "e">> }

ReqInit ==
    /\ \E bad \in {0, 1} : fs = SrvLayout(bad, 0)
    /\ dirOrder = SrvOrder
    /\ ToolIdle
    /\ ServerFresh

ReqNext ==
    \/ \E slug \in ReqSlugs, i \in IndexInputs : ReadChapter(slug, i)
    \/ \E slug \in ReqSlugs : Redirect(slug)
    \/ \E slug \in {<<"b">>, <<"z">>}, n \in ImageInputs : ServeImage(slug, n)

ReqSpec == ReqInit /\ [][ReqNext]_vars

\* ------------------------------------- the server and the tool together
\* the listing order once the targets of the tool exist
LiveOrder == SrvOrder \o <<Namey, Nameab>>

LiveInit ==
    /\ fs \in {SrvLayout(0, 0), SrvLayout(4, 2)}
    /\ dirOrder \in {LiveOrder, Reverse(LiveOrder)}
    /\ ToolIdle
    /\ ServerFresh

LiveSlugs == { <<"b">>, <<"c">>, <<"z">> }

LiveFind(slug) == reqs < MaxLive /\ Find(slug)
LiveLibrary == reqs < MaxLive /\ Library

\* the folders whose record someone else replaces or deletes
LiveTouched == {SrvName(2), SrvName(4)}

\* someone puts a readable legacy record into folder n, or deletes its record
DiskChange(n, f) ==
    /\ extCreated = {}
    /\ n \in DOMAIN fs
    /\ fs[n].pkl.kind # f.kind
    /\ fs' = Put(fs, n, Dir(f, fs[n].sub))
    /\ extCreated' = {n}
    /\ UNCHANGED <<dirOrder, pc, dry_run, planVars, response, idx, success_count,
                   outcome, run, faults, histVars, srvVars>>

\* the server process is started again: the lru_cache is empty
Restart ==
    /\ cache # <<>>
    /\ cache' = <<>>
    /\ result' = NoResult
    /\ lastReq' = NoRequest
    /\ clock' = 0
    /\ lastUse' = [n \in {} |-> 0]
    /\ evictions' = 0
    /\ page' = <<>>
    /\ snap' = [n \in {} |-> None]
    /\ missed' = {}
    /\ UNCHANGED <<fs, dirOrder, toolVars, reqs, arg, reply, flight>>

LiveNext ==
    \/ \E slug \in LiveSlugs : LiveFind(slug)
    \/ LiveLibrary
    \/ \E dry \in BOOLEAN : Start(dry)
    \/ \E r \in {<<"y">>, <<"n">>} : Confirm(r)
    \/ \E f \in {"none", "write"} : Migrate(f)
    \/ Finish
    \/ \E n \in LiveTouched :
          \E f \in {BookFile(EmptySlug, Lower(BaseOf(n))), NoFile} : DiskChange(n, f)
    \/ Restart

LiveSpec == LiveInit /\ [][LiveNext]_vars

\* --------------------------------------- requests that overlap in time
\* a request begun and not yet answered: the listing it iterates, the position
\* in it, and what the library view has collected
NewRequest(op, slug) ==
    [op |-> op, slug |-> slug, names |-> SelectSeq(listdir(fs, dirOrder), EndsWithData),
     pos |-> 1, stage |-> "scan", out |-> <<>>, res |-> NoResult]

\* lru_cache storing a result without looking for the key again
lru_insert_NoRecheck(c, key, v) ==
    LET e == [key |-> key, val |-> v]
    IN IF Len(c) >= maxsize
       THEN [cache |-> Append(Tail(c), e), inserted |-> 1, evicted |-> 1, raced |-> FALSE]
       ELSE [cache |-> Append(c, e), inserted |-> 1, evicted |-> 0, raced |-> FALSE]

\* lru_cache storing the result of a call that missed: a key that another call
\* stored in the meantime is left as it is
lru_insert(c, key, v) ==
    LET e == [key |-> key, val |-> v]
    IN IF key \in CacheKeys(c)
       THEN [cache |-> c, inserted |-> 0, evicted |-> 0, raced |-> TRUE]
       ELSE IF Len(c) >= maxsize
            THEN [cache |-> Append(Tail(c), e), inserted |-> 1, evicted |-> 1,
                  raced |-> FALSE]
            ELSE [cache |-> Append(c, e), inserted |-> 1, evicted |-> 0,
                  raced |-> FALSE]

\* the scan of request f from its position on, with value v in hand for the
\* folder at that position when have is TRUE; it runs through cache hits and
\* stops at the next folder that has to be read from disk
RECURSIVE ConcRun(_, _, _, _)
ConcRun(c, f, have, v) ==
    IF f.pos > Len(f.names)
    THEN [cache |-> c,
          req |-> [f EXCEPT !.stage = "done",
                            !.res = IF f.op = "library"
                                    THEN [found |-> f.out # <<>>, folder |-> <<>>,
                                          book |-> None]
                                    ELSE NoResult]]
    ELSE LET key == f.names[f.pos]
         IN IF have
            THEN IF f.op = "find" /\ v.kind = "book" /\ v.slug = f.slug
                 THEN [cache |-> c,
                       req |-> [f EXCEPT !.stage = "done",
                                         !.res = [found |-> TRUE, folder |-> key,
                                                  book |-> v]]]
                 ELSE ConcRun(c, [f EXCEPT !.pos = f.pos + 1,
                                           !.out = IF f.op = "library" /\ v.kind = "book"
                                                   THEN Append(f.out, v) ELSE f.out],
                              FALSE, None)
            ELSE IF key \in CacheKeys(c)
                 THEN LET k == CachePos(c, key)
                      IN ConcRun(Append(DropAt(c, k), c[k]), f, TRUE, c[k].val)
                 ELSE [cache |-> c, req |-> [f EXCEPT !.stage = "read"]]

\* the answer of a finished request, or the request back in flight
Deliver(r, rest, waiting) ==
    /\ cache' = r.cache
    /\ IF r.req.stage = "done"
       THEN /\ flight' = rest
            /\ lastReq' = [op |-> r.req.op, slug |-> r.req.slug]
            /\ result' = r.req.res
            /\ page' = IF r.req.op = "library" THEN r.req.out ELSE page
       ELSE /\ flight' = waiting
            /\ UNCHANGED <<lastReq, result, page>>

\* a request arrives and runs until it has to read a record from disk
ConcBegin(op, slug) ==
    /\ reqs < MaxConc
    /\ reqs' = reqs + 1
    /\ LET r == ConcRun(cache, NewRequest(op, slug), FALSE, None)
       IN Deliver(r, flight, Append(flight, r.req))
    /\ UNCHANGED <<fs, dirOrder, toolVars, clock, lastUse, evictions, arg, reply,
                   snap, missed>>

\* the read of request i returns: the result is stored and the scan goes on
ConcResume(i) ==
    /\ i \in 1..Len(flight)
    /\ LET f == flight[i]
           key == f.names[f.pos]
           v == load_book(fs, key)
           ins == lru_insert(cache, key, v)
           r == ConcRun(ins.cache, f, TRUE, v)
       IN /\ Deliver(r, DropAt(flight, i), [flight EXCEPT ![i] = r.req])
          /\ clock' = clock + ins.inserted
          /\ evictions' = evictions + ins.evicted
          /\ missed' = IF ins.raced THEN missed \cup {key} ELSE missed
    /\ UNCHANGED <<fs, dirOrder, toolVars, reqs, lastUse, arg, reply, snap>>

ConcInit ==
    /\ fs = SrvLayout(4, 2)
    /\ dirOrder = SrvOrder
    /\ ToolIdle
    /\ ServerFresh

ConcSlugs == { <<"b">> }

ConcNext ==
    \/ \E slug \in ConcSlugs : ConcBegin("find", slug)
    \/ ConcBegin("library", <<>>)
    \/ \E i \in 1..MaxConc : ConcResume(i)

ConcSpec == ConcInit /\ [][ConcNext]_vars

\* ------------------------------------------------- the legacy slug alone
Blocks == { <<"a">>, <<"B">>, <<" ">>, <<"_">>, Suffix }

RECURSIVE NamesOf(_)
NamesOf(k) ==
    IF k = 0 THEN {<<>>}
    ELSE NamesOf(k - 1) \cup {b \o n : b \in Blocks, n \in NamesOf(k - 1)}

\* folder names ending in _data
FolderInputs == {n \o Suffix : n \in NamesOf(MaxBlocks)}

SlugInit ==
    /\ fs = [n \in {} |-> Dir(NoFile, {})]
    /\ dirOrder = <<>>
    /\ ToolIdle
    /\ CacheFresh
    /\ \E n \in FolderInputs : arg = [name |-> n, index |-> 0]
    /\ reply = NoReply

\* one call of generate_slug_from_id
Derive ==
    /\ reply.status = "none"
    /\ reply' = [status |-> "slug", value |-> generate_slug_from_id(arg.name),
                 prev |-> -1, next |-> -1]
    /\ UNCHANGED <<fs, dirOrder, toolVars, cache, result, lastReq, reqs, clock,
                   lastUse, evictions, page, arg, snap, missed, flight>>

SlugNext == Derive

SlugSpec == SlugInit /\ [][SlugNext]_vars

Next ==
    \/ \E dry \in BOOLEAN : Start(dry)
    \/ \E r \in Responses : Confirm(r)
    \/ \E f \in FaultKinds : Migrate(f)
    \/ Finish
    \/ NextRun

Spec == Init /\ [][Next]_vars

\* someone else makes a folder while the tool waits at the prompt of line 95
External(n, f) ==
    /\ pc = "confirm"
    /\ extCreated = {}
    /\ n \notin DOMAIN fs
    /\ fs' = Put(fs, n, Dir(f, {}))
    /\ extCreated' = {n}
    /\ UNCHANGED <<dirOrder, pc, dry_run, planVars, response, idx, success_count,
                   outcome, run, faults, histVars, srvVars>>

AllNames == StartNameSet \cup {FolderOf(generate_slug(t, <<>>)) : t \in Titles}

NextExt ==
    \/ \E dry \in BOOLEAN : Start(dry)
    \/ \E r \in Responses : Confirm(r)
    \/ \E f \in FaultKinds : Migrate(f)
    \/ Finish
    \/ NextRun
    \/ \E n \in AllNames, f \in {NoFile, BookFile(EmptySlug, <<"Y">>)} : External(n, f)

SpecExt == Init /\ [][NextExt]_vars

\* ------------------------------------------------------------- properties
\* the book folders a scan of directory d discovers
BookFolders(d) == {n \in DOMAIN d : EndsWithData(n) /\ d[n].pkl.kind = "book"}

\* the slug under which the server resolves folder n of directory d
EffectiveSlug(d, n) == load_book(d, n).slug

Canonical(book) == generate_slug(book.title, <<>>)

Planned == pc # "idle"
RunCompleted == pc = "done" /\ outcome = "completed"
AllSucceeded == RunCompleted /\ success_count = Len(migrations)

\* two scanned books, neither at its target, with the same canonical slug
SameTarget(j, k) ==
    /\ j < k
    /\ Canonical(books[j][2]) = Canonical(books[k][2])
    /\ books[j][1] # FolderOf(Canonical(books[j][2]))
    /\ books[k][1] # FolderOf(Canonical(books[k][2]))

\* C1: of two book folders whose titles canonicalize to the same slug, neither
\* at the target name, the second in scan order is planned as Conflicting and
\* the run changes nothing on disk.
C1_SameSlugSecondConflicts ==
    Planned =>
      \A j, k \in 1..Len(books) :
         SameTarget(j, k) =>
            /\ \E c \in SeqRange(conflicts) : c[1] = books[k][1]
            /\ fs = fs0

\* C2: no folder is moved onto or into a target that someone else created
\* after planning.
C2_NoMoveOntoLateTarget == intoExisting \cap extCreated = {}

Gates ==
    /\ conflicts = <<>>
    /\ migrations # <<>>
    /\ ~dry_run
    /\ Lower(response) = <<"y">>

\* C3: the directory differs from what the run found, or a move or a slug
\* rewrite was made, only if the plan had no Conflicting entry and at least one
\* Renamable entry, dry-run was off and the operator answered y.
C3_ChangesOnlyAfterGates ==
    (renames > 0 \/ rewrites > 0 \/ fs # fs0) => Gates

C3_Witness == RunCompleted /\ renames > 0 /\ rewrites > 0 /\ fs # fs0

\* C4: after a run that ended with every attempted entry successful, every
\* book folder with a non-empty stored slug s is named s_data.
C4_SlugNamesFolder ==
    AllSucceeded =>
      \A n \in BookFolders(fs) :
         fs[n].pkl.slug # <<>> => n = FolderOf(fs[n].pkl.slug)

Collides(d) ==
    \E n1, n2 \in BookFolders(d) : n1 # n2 /\ EffectiveSlug(d, n1) = EffectiveSlug(d, n2)

\* C5: after a run that found no conflict and ended with every attempted entry
\* successful, no two distinct book folders have the same effective slug.
C5_EffectiveSlugsDistinct == AllSucceeded => ~Collides(fs)

C5_Witness == AllSucceeded /\ Collides(fs0) /\ Cardinality(BookFolders(fs)) >= 2

OkOfRun(r) == {e \in SeqRange(prevOk) : e[1] = r}

\* C6: in a run started right after a first run, every entry the first run
\* reported as migrated is planned as Unchanged, each as an entry of its own.
C6_SecondRunUnchanged ==
    (Planned /\ run = 2 /\ faults = 0) =>
      /\ \A e \in OkOfRun(1) : <<FolderOf(e[3]), e[4]>> \in SeqRange(unchanged)
      /\ Cardinality({FolderOf(e[3]) : e \in OkOfRun(1)}) = Cardinality(OkOfRun(1))

\* C7: at the end of the execution loop every Renamable entry was attempted
\* once, in plan order, and the reported number of successes is the number of
\* entries whose folder was renamed to the target and whose slug was rewritten.
C7_ReportCountsRenames ==
    RunCompleted =>
      /\ attemptLog = [k \in 1..Len(migrations) |-> migrations[k][1]]
      /\ success_count <= Len(migrations)
      /\ success_count = trueRenames

\* C8: after a run every book folder the run found is still a child of the
\* root, under its old name or <canonical slug>_data, and as many book folders
\* are discoverable as before.
C8_FoldersPreserved ==
    (pc = "done" /\ faults = 0) =>
      /\ \A n \in BookFolders(fs0) :
            n \in DOMAIN fs \/ FolderOf(Canonical(fs0[n].pkl)) \in DOMAIN fs
      /\ Cardinality(BookFolders(fs)) = Cardinality(BookFolders(fs0))

\* the cached folder whose last load_book_cached call is the oldest
LeastRecent == CHOOSE n \in CacheKeys(cache) :
                  \A m \in CacheKeys(cache) : lastUse[n] <= lastUse[m]

CacheVal(c, key) == c[CachePos(c, key)].val

\* C9: the cache holds at most 10 entries, and a load of an uncached folder
\* into a full cache drops exactly the least recently loaded entry and keeps
\* every other one.
C9_LruBounded ==
    /\ Len(cache) <= maxsize
    /\ Len(cache) = maxsize =>
         \A f \in SrvNames \ CacheKeys(cache) :
            LET after == load_book_cached(cache, fs, f).cache
            IN /\ CacheKeys(after) = (CacheKeys(cache) \ {LeastRecent}) \cup {f}
               /\ Len(after) = maxsize
               /\ \A n \in CacheKeys(cache) \ {LeastRecent} :
                     CacheVal(after, n) = CacheVal(cache, n)

C9_Witness ==
    /\ Len(cache) = maxsize
    /\ evictions > 0
    /\ reqs >= 3
    /\ SrvNames \ CacheKeys(cache) # {}

\* the position of name n in the listing order
OrderPos(n) == CHOOSE k \in 1..Len(dirOrder) : dirOrder[k] = n

Matching(slug) == {n \in BookFolders(fs) : EffectiveSlug(fs, n) = slug}

FirstMatching(slug) ==
    CHOOSE n \in Matching(slug) : \A m \in Matching(slug) : OrderPos(n) <= OrderPos(m)

\* C10: a slug lookup returns the first folder in listing order whose record
\* loads and whose effective slug is the target, with that record, and returns
\* not-found exactly when no book folder has that effective slug.
C10_FirstMatchWins ==
    lastReq.op = "find" =>
       IF Matching(lastReq.slug) = {}
       THEN ~result.found
       ELSE /\ result.found
            /\ result.folder = FirstMatching(lastReq.slug)
            /\ result.book = load_book(fs, result.folder)

C10_Witness ==
    /\ lastReq.op = "find"
    /\ result.found
    /\ Cardinality(Matching(lastReq.slug)) >= 2

\* lowercase, with spaces and underscores turned into hyphens
Hyphenated(x) == ReplaceChar(ReplaceChar(Lower(x), " ", "-"), "_", "-")

\* C12: for a folder name ending in _data the legacy slug is the name without
\* that trailing suffix, lowercased, spaces and underscores as hyphens; _data
\* elsewhere in the name stays.
C12_TrailingSuffixOnly ==
    reply.status = "slug" => reply.value = Hyphenated(BaseOf(arg.name))

\* C13: an image request answers not-found or a path that names an entry
\* directly inside the images directory of the resolved book.
C13_ImageInsideImagesDir ==
    (lastReq.op = "image" /\ reply.status = "file") =>
       LET loc == Location(reply.value)
       IN /\ Len(loc) = 3
          /\ loc[1] = result.folder
          /\ loc[2] = ImagesDir
          /\ loc[3] \in ImageFiles

\* C14: a chapter request for a resolved book succeeds iff
\* 0 <= index < len(spine); then prev is index-1 when index > 0, else none,
\* and next is index+1 when index < len(spine)-1, else none.
C14_ChapterBounds ==
    (lastReq.op \in {"chapter", "redirect"} /\ result.found) =>
       LET n == Len(result.book.spine)
           i == arg.index
       IN /\ reply.status = "ok" <=> (0 <= i /\ i < n)
          /\ reply.status # "ok" => reply.status = "chapter-not-found"
          /\ reply.status = "ok" =>
               /\ reply.value = <<result.book.spine[i + 1]>>
               /\ reply.prev = (IF i > 0 THEN i - 1 ELSE -1)
               /\ reply.next = (IF i < n - 1 THEN i + 1 ELSE -1)

C14_Witness ==
    /\ lastReq.op = "chapter"
    /\ result.found
    /\ reply.status = "ok"
    /\ reply.prev = 1
    /\ reply.next = -1
    /\ reqs = 2

IsBookFolder(n) == n \in BookFolders(fs)

\* C11: a loaded record has its stored slug when that is non-empty and
\* otherwise the slug derived from its folder name; a lookup returns it under
\* that slug; every planned migration target is the canonical slug of the title.
C11_SlugPathsDistinct ==
    /\ \A n \in BookFolders(fs) :
          load_book(fs, n).slug = IF fs[n].pkl.slug # <<>> THEN fs[n].pkl.slug
                                  ELSE Hyphenated(BaseOf(n))
    /\ (lastReq.op = "find" /\ result.found /\ fs = fs0) =>
          /\ result.book.slug = lastReq.slug
          /\ result.book.slug = IF fs[result.folder].pkl.slug # <<>>
                                THEN fs[result.folder].pkl.slug
                                ELSE Hyphenated(BaseOf(result.folder))
    /\ \A k \in 1..Len(migrations) :
          \E j \in 1..Len(books) :
             /\ books[j][1] = migrations[k][1]
             /\ migrations[k][2] = generate_slug(books[j][2].title, <<>>)

C11_Witness ==
    /\ fs = fs0
    /\ lastReq = [op |-> "find", slug |-> <<"b">>]
    /\ result.found
    /\ result.folder = SrvName(1)
    /\ result.book.title = <<"Y">>
    /\ fs[result.folder].pkl.slug = <<>>
    /\ \E k \in 1..Len(migrations) :
          migrations[k][1] = SrvName(1) /\ migrations[k][2] = <<"y">>

\* C15: with an unreadable record anywhere in the listing, a lookup still
\* returns the first matching book folder, the library page still lists every
\* readable book in listing order, and the migration scan still finds every
\* book folder.
C15_CorruptRecordSkipped ==
    /\ (lastReq.op = "find" /\ fs = fs0) =>
          IF Matching(lastReq.slug) = {} THEN ~result.found
          ELSE result.found /\ result.folder = FirstMatching(lastReq.slug)
    /\ (lastReq.op = "library" /\ fs = fs0) =>
          LET shown == SelectSeq(listdir(fs, dirOrder), IsBookFolder)
          IN page = [k \in 1..Len(shown) |-> load_book(fs, shown[k])]
    /\ (Planned /\ extCreated = {}) =>
          LET found == SelectSeq(listdir(fs0, dirOrder),
                                 LAMBDA n : n \in BookFolders(fs0))
          IN books = [k \in 1..Len(found) |-> <<found[k], fs0[found[k]].pkl>>]

C15_Witness ==
    /\ fs = fs0
    /\ Planned
    /\ lastReq.op = "find"
    /\ result.found
    /\ \E n \in DOMAIN fs :
          /\ fs[n].pkl.kind = "corrupt"
          /\ n \in CacheKeys(cache)
          /\ OrderPos(n) < OrderPos(result.folder)
          /\ OrderPos(n) < OrderPos(books[Len(books)][1])

\* C16: every cached entry is the value read when the folder last missed the
\* cache, whatever the directory holds now, and a lookup returns that value.
C16_NoInvalidation ==
    /\ \A k \in CacheKeys(cache) : CacheVal(cache, k) = snap[k]
    /\ (lastReq.op = "find" /\ result.found) =>
          /\ result.folder \in CacheKeys(cache)
          /\ result.book = snap[result.folder]

C16_Witness ==
    /\ lastReq.op = "find"
    /\ result.found
    /\ result.folder \notin missed
    /\ result.book # load_book(fs, result.folder)
    /\ \E k \in CacheKeys(cache) : k \notin DOMAIN fs

Content(f) == <<f.title, f.authors, f.spine>>

\* the content of every record in directory entry e and in the folders in it
RECURSIVE ContentsOf(_)
ContentsOf(e) ==
    (IF e.pkl.kind = "book" THEN {Content(e.pkl)} ELSE {})
       \cup UNION {ContentsOf(p[2]) : p \in e.sub}

Contents(d) == UNION {ContentsOf(d[n]) : n \in DOMAIN d}

\* C18: as long as nobody else changes the directory, the titles, authors and
\* spines of the records on disk are those the directory started with.
C18_ContentNeverChanges == extCreated = {} => Contents(fs) = Contents(fs0)

\* C19: a folder that loaded as not-found keeps a cache slot and keeps loading
\* as not-found while it is cached, so a lookup never returns it, even when a
\* readable record is on disk by now.
C19_NotFoundCached ==
    /\ Len(cache) = IF Cardinality(DOMAIN lastUse) < maxsize
                    THEN Cardinality(DOMAIN lastUse) ELSE maxsize
    /\ \A k \in CacheKeys(cache) :
          snap[k].kind = "none" =>
             /\ CacheVal(cache, k).kind = "none"
             /\ ~(lastReq.op = "find" /\ result.found /\ result.folder = k)

C19_Witness ==
    /\ lastReq.op = "find"
    /\ ~result.found
    /\ \E k \in CacheKeys(cache) \ missed :
          /\ CacheVal(cache, k).kind = "none"
          /\ k \in BookFolders(fs)
          /\ EffectiveSlug(fs, k) = lastReq.slug

\* the entries of the plan that the run did not report as migrated
Failed == {k \in 1..Len(migrations) :
              \A e \in OkOfRun(run) : e[2] # migrations[k][1]}

\* C20: after a run, the folder of every entry reported as an error is still
\* at its old name with the stored slug it had before the run.
C20_FailedEntryUnchanged ==
    RunCompleted =>
       \A k \in Failed :
          LET old == migrations[k][1]
          IN /\ old \in DOMAIN fs
             /\ fs[old].pkl = fs0[old].pkl

\* C17: however requests overlap, the cache holds at most 10 entries, no two
\* for the same folder, each the whole result of loading its folder, and it
\* has dropped exactly the entries stored beyond those it holds.
C17_CacheConsistent ==
    /\ Len(cache) <= maxsize
    /\ \A j, k \in 1..Len(cache) : j # k => cache[j].key # cache[k].key
    /\ \A k \in 1..Len(cache) : cache[k].val = load_book(fs, cache[k].key)
    /\ Len(cache) = clock - evictions

C17_Witness ==
    /\ missed # {}
    /\ flight # <<>>
    /\ evictions > 0
    /\ Len(cache) = maxsize

====
